---- MODULE Spec2Model ----
(***************************************************************************)
(* Model of ragoo_scaffold.py: main() reads the alignments of query        *)
(* contigs against reference sequences, aggregates them per contig,        *)
(* filters them, keeps the contigs that pass three confidence thresholds,  *)
(* groups and sorts them per reference, sizes the gaps between neighbours  *)
(* and hands the layout to write_orderings(), which serialises it to       *)
(* orderings.bed.                                                          *)
(*                                                                         *)
(* Headers are modelled as positive integers; their order stands for the   *)
(* order of the header strings.  A Python dict is a record [keys, vals]:   *)
(* keys is the sequence of keys in insertion order (the order a for loop   *)
(* visits them), vals the mapping.  The methods of ContigAlignment and the *)
(* AlignmentReader live in ragoo_utilities, outside this file: what they   *)
(* return is an input of the step of main() that calls them.               *)
(*                                                                         *)
(* main() is one long pass.  Each of its stages is specified on its own,   *)
(* started from the states the stage before it can leave behind:           *)
(*   SpecRead    lines 143-154   aggregation of the alignment stream       *)
(*   SpecFilter  lines 156-177   filtering and thresholding                *)
(*   SpecOrder   lines 179-207   grouping, sorting, gap sizes              *)
(*   SpecWrite   lines  12-62    write_orderings                           *)
(***************************************************************************)
EXTENDS Integers, Sequences, FiniteSets, TLC

----------------------------------------------------------------------------
(* Bounds of the model *)

NumContigs == 3
\* number of distinct query headers the aligner may report

MaxStream == 3
\* number of alignment records in the stream

MaxCoord == 1
\* largest reference coordinate

MaxGap == 1
\* largest value of -g

MaxPlaced == 4
\* number of contigs in a layout handed to write_orderings

DefaultMinLen == 10000
\* -l

Contigs == 1..NumContigs

Refs == {1, 2}

Aligners == {"minimap2", "nucmer"}

MapqValues == {0, 1}

NullMapq == 0 - 1
\* nucmer alignments carry no mapping quality

Scores == {0, 1}
\* confidence scores and thresholds, on a common scale

GapSizes == (0 - 1)..MaxGap
\* -g is any integer: argparse accepts a negative one

Intervals == {p \in (0..MaxCoord) \X (0..MaxCoord) : p[1] <= p[2]}

None == [none |-> TRUE]
\* Python's None

NotComputed == <<>>
\* a derived attribute of a ContigAlignment that has not been read yet

QueryLen(q) == q + 1
\* length of contig q, the same in every record of q

----------------------------------------------------------------------------
(* dict *)

EmptyDict == [keys |-> <<>>, vals |-> <<>>]

Keys(d) == {d.keys[k] : k \in 1..Len(d.keys)}

Has(d, k) == k \in Keys(d)

Put(d, k, v) ==
    IF Has(d, k)
    THEN [keys |-> d.keys, vals |-> [d.vals EXCEPT ![k] = v]]
    ELSE [keys |-> Append(d.keys, k),
          vals |-> [x \in Keys(d) \cup {k} |-> IF x = k THEN v ELSE d.vals[x]]]

----------------------------------------------------------------------------
(* AlignmentRecord and ContigAlignment *)

AlignmentRecord(q, r, m) ==
    [query_header |-> q, query_len |-> QueryLen(q), ref_header |-> r, mapq |-> m]

MapqOf(al) == IF al = "minimap2" THEN MapqValues ELSE {NullMapq}

Records(al) == {AlignmentRecord(q, r, m) : q \in Contigs, r \in Refs, m \in MapqOf(al)}

ContigAlignment(q, alns) ==
    [query_header |-> q, query_len |-> QueryLen(q), alns |-> alns,
     confidence |-> NotComputed, best_ref_header |-> 0,
     best_ref_pos |-> NotComputed, best_ref_flanks |-> NotComputed,
     orientation |-> NotComputed]

add_alignment(c, rec) == ContigAlignment(c.query_header, Append(c.alns, rec))

----------------------------------------------------------------------------
VARIABLES
    pc,                 \* the stage main() is in
    aligner, query_blacklist, ref_blacklist, min_q, min_len,
    group_score_thresh, loc_score_thresh, orient_score_thresh,
    gap_size, infer_gaps, overwrite_files,
    stream,             \* the records parse_alignments() has yielded so far
    ctg_alns,
    idx,                \* position of the filtering loop in ctg_alns
    filter_calls,       \* the filter calls made so far, in order
    raised,             \* an exception has ended main()
    fltrd_ctg_alns,
    mapped_ref_seqs,
    pads_sizes,
    out_file,           \* orderings.bed
    prev_file,          \* orderings.bed as it was when main() started
    all_out_lines,
    logged              \* the messages write_orderings has logged

options == <<aligner, query_blacklist, ref_blacklist, min_q, min_len,
             group_score_thresh, loc_score_thresh, orient_score_thresh,
             gap_size, infer_gaps, overwrite_files>>

readVars == <<stream, ctg_alns>>

filterVars == <<idx, filter_calls, raised, fltrd_ctg_alns>>

orderVars == <<mapped_ref_seqs, pads_sizes>>

writeVars == <<out_file, prev_file, all_out_lines, logged>>

vars == <<pc, options, readVars, filterVars, orderVars, writeVars>>

\* orderings.bed: missing, or a file holding a sequence of lines
Absent == [exists |-> FALSE, lines |-> <<>>]

File(lines) == [exists |-> TRUE, lines |-> lines]

----------------------------------------------------------------------------
(* Stage 1: reading and aggregating the alignments, lines 143-154 *)

Allowed_NoRefCheck(rec) == rec.query_header \notin query_blacklist

Allowed(rec) ==
    rec.query_header \notin query_blacklist /\ rec.ref_header \notin ref_blacklist

Aggregate(d, rec) ==
    IF Allowed(rec)
    THEN IF ~Has(d, rec.query_header)
         THEN Put(d, rec.query_header, ContigAlignment(rec.query_header, <<rec>>))
         ELSE Put(d, rec.query_header, add_alignment(d.vals[rec.query_header], rec))
    ELSE d

QueryBlacklists == {{}, {1}}

RefBlacklists == {{}, {1}}

\* the options the aggregation does not read
OptionsNotRead ==
    /\ min_q = 0
    /\ min_len = DefaultMinLen
    /\ group_score_thresh = 0
    /\ loc_score_thresh = 0
    /\ orient_score_thresh = 0
    /\ gap_size = MaxGap
    /\ infer_gaps = FALSE
    /\ overwrite_files = FALSE

InitRead ==
    /\ pc = "read"
    /\ aligner \in Aligners
    /\ query_blacklist \in QueryBlacklists
    /\ ref_blacklist \in RefBlacklists
    /\ OptionsNotRead
    /\ stream = <<>>
    /\ ctg_alns = EmptyDict
    /\ idx = 1
    /\ filter_calls = <<>>
    /\ raised = FALSE
    /\ fltrd_ctg_alns = EmptyDict
    /\ mapped_ref_seqs = EmptyDict
    /\ pads_sizes = EmptyDict
    /\ out_file = Absent
    /\ prev_file = Absent
    /\ all_out_lines = <<>>
    /\ logged = {}

ReadAlignment ==
    /\ pc = "read"
    /\ Len(stream) < MaxStream
    /\ \E aln_line \in Records(aligner) :
        /\ stream' = Append(stream, aln_line)
        /\ ctg_alns' = Aggregate(ctg_alns, aln_line)
    /\ UNCHANGED <<pc, options, filterVars, orderVars, writeVars>>

EndOfAlignments ==
    /\ pc = "read"
    /\ pc' = "filter"
    /\ UNCHANGED <<options, readVars, filterVars, orderVars, writeVars>>

NextRead == ReadAlignment \/ EndOfAlignments

SpecRead == InitRead /\ [][NextRead]_vars

(* C8: the aggregated mapping against the stream it was built from *)

Dropped(rec) ==
    rec.query_header \in query_blacklist \/ rec.ref_header \in ref_blacklist

KeptOf(q) ==
    SelectSeq(stream, LAMBDA rec : rec.query_header = q /\ ~Dropped(rec))

ObservedHeaders == {stream[k].query_header : k \in 1..Len(stream)}

EntriesAreKeptRecords ==
    /\ Len(ctg_alns.keys) = Cardinality(Keys(ctg_alns))
    /\ \A q \in Keys(ctg_alns) :
        /\ ctg_alns.vals[q].query_header = q
        /\ ctg_alns.vals[q].alns = KeptOf(q)
        /\ \A k \in 1..Len(ctg_alns.vals[q].alns) : ~Dropped(ctg_alns.vals[q].alns[k])
    /\ (stream = <<>> => Keys(ctg_alns) = {})

\* C8 as claimed: after aggregation ctg_alns has exactly one entry for every
\* header observed in the stream that is not in the contig blacklist, each entry
\* holding the contig's non-dropped records in stream order, and an empty
\* stream gives an empty mapping.
C8_AsClaimed ==
    pc = "filter" =>
        /\ Keys(ctg_alns) = ObservedHeaders \ query_blacklist
        /\ EntriesAreKeptRecords

\* C8 amended: after aggregation ctg_alns has exactly one entry for every header
\* that has at least one record in the stream whose query_header is not in the
\* contig blacklist and whose ref_header is not in the reference blacklist (a
\* contig all of whose records are dropped has no entry); no dropped record is
\* in any entry; each entry holds the contig's non-dropped records in stream
\* order; an empty stream gives an empty mapping.
C8_Aggregation ==
    pc = "filter" =>
        /\ Keys(ctg_alns) = {q \in ObservedHeaders : KeptOf(q) # <<>>}
        /\ EntriesAreKeptRecords

C8_Witness ==
    /\ pc = "filter"
    /\ \E q \in Keys(ctg_alns) :
        /\ Len(ctg_alns.vals[q].alns) >= 2
        /\ Len(SelectSeq(stream, LAMBDA rec : rec.query_header = q)) = 3
    /\ \E k \in 1..Len(stream) : stream[k].ref_header \in ref_blacklist

----------------------------------------------------------------------------
(* Stage 2: filtering and thresholding, lines 156-177 *)

RECURSIVE AggregateAll(_, _)
AggregateAll(d, s) ==
    IF s = <<>> THEN d ELSE AggregateAll(Aggregate(d, Head(s)), Tail(s))

\* The filters and the thresholds never read ref_header: the streams of this
\* stage align every contig to one reference.
Streams(al) ==
    LET recs == {rec \in Records(al) : rec.ref_header = 1}
    IN  UNION {[1..n -> recs] : n \in 0..MaxStream}

RECURSIVE Pick(_, _, _)
Pick(s, keep, k) ==
    IF k > Len(s) THEN <<>>
    ELSE (IF k \in keep THEN <<s[k]>> ELSE <<>>) \o Pick(s, keep, k + 1)

\* ContigAlignment.filter_mapq: the records with mapq >= q, None when none is left
filter_mapq(c, q) ==
    LET kept == SelectSeq(c.alns, LAMBDA rec : rec.mapq >= q)
    IN  IF kept = <<>> THEN None ELSE ContigAlignment(c.query_header, kept)

\* ContigAlignment.unique_anchor_filter: which records keep a unique anchor of
\* length l or more is decided outside this file; any sub-list may come back,
\* None when it is empty
unique_anchor_filter(c, l) ==
    {None} \cup {ContigAlignment(c.query_header, Pick(c.alns, keep, 1)) :
                    keep \in (SUBSET (1..Len(c.alns))) \ {{}}}

Call(fn, c, res) == [fn |-> fn, ctg |-> c.query_header, arg |-> c, res |-> res]

IsNotNone_Always(c) == TRUE

\* line 162
IsNotNone(c) == c # None

InitFilter ==
    /\ pc = "filter"
    /\ aligner \in Aligners
    /\ query_blacklist = {}
    /\ ref_blacklist = {}
    /\ min_q \in MapqValues
    /\ min_len = DefaultMinLen
    /\ group_score_thresh \in Scores
    /\ loc_score_thresh \in Scores
    /\ orient_score_thresh \in Scores
    /\ gap_size = MaxGap
    /\ infer_gaps = FALSE
    /\ overwrite_files = FALSE
    /\ stream \in Streams(aligner)
    /\ ctg_alns = AggregateAll(EmptyDict, stream)
    /\ idx = 1
    /\ filter_calls = <<>>
    /\ raised = FALSE
    /\ fltrd_ctg_alns = EmptyDict
    /\ mapped_ref_seqs = EmptyDict
    /\ pads_sizes = EmptyDict
    /\ out_file = Absent
    /\ prev_file = Absent
    /\ all_out_lines = <<>>
    /\ logged = {}

\* lines 160-163, one pass of the loop
FilterMinimap2 ==
    /\ pc = "filter" /\ aligner = "minimap2" /\ ~raised
    /\ idx <= Len(ctg_alns.keys)
    /\ LET i  == ctg_alns.keys[idx]
           c0 == ctg_alns.vals[i]
           c1 == filter_mapq(c0, min_q)
       IN  IF IsNotNone(c1)
           THEN IF c1 = None
                THEN \* None.unique_anchor_filter: AttributeError
                     /\ raised' = TRUE
                     /\ ctg_alns' = Put(ctg_alns, i, c1)
                     /\ filter_calls' = Append(filter_calls, Call("filter_mapq", c0, c1))
                     /\ idx' = idx
                ELSE \E c2 \in unique_anchor_filter(c1, min_len) :
                     /\ ctg_alns' = Put(ctg_alns, i, c2)
                     /\ filter_calls' = filter_calls \o
                            <<Call("filter_mapq", c0, c1),
                              Call("unique_anchor_filter", c1, c2)>>
                     /\ idx' = idx + 1
                     /\ raised' = raised
           ELSE /\ ctg_alns' = Put(ctg_alns, i, c1)
                /\ filter_calls' = Append(filter_calls, Call("filter_mapq", c0, c1))
                /\ idx' = idx + 1
                /\ raised' = raised
    /\ UNCHANGED <<pc, options, stream, fltrd_ctg_alns, orderVars, writeVars>>

\* lines 165-166, one pass of the loop
FilterNucmer ==
    /\ pc = "filter" /\ aligner # "minimap2" /\ ~raised
    /\ idx <= Len(ctg_alns.keys)
    /\ LET i  == ctg_alns.keys[idx]
           c0 == ctg_alns.vals[i]
       IN  \E c2 \in unique_anchor_filter(c0, min_len) :
             /\ ctg_alns' = Put(ctg_alns, i, c2)
             /\ filter_calls' = Append(filter_calls, Call("unique_anchor_filter", c0, c2))
             /\ idx' = idx + 1
    /\ UNCHANGED <<pc, options, stream, raised, fltrd_ctg_alns, orderVars, writeVars>>

Passes_AtLeast(c) ==
    /\ c.confidence[1] >= group_score_thresh
    /\ c.confidence[2] >= loc_score_thresh
    /\ c.confidence[3] >= orient_score_thresh

\* lines 172-176
Passes(c) ==
    /\ c.confidence[1] > group_score_thresh
    /\ c.confidence[2] > loc_score_thresh
    /\ c.confidence[3] > orient_score_thresh

RECURSIVE Qualified(_, _, _)
\* lines 169-177: the placed contigs, in the order of ctg_alns
Qualified(d, k, acc) ==
    IF k > Len(d.keys) THEN acc
    ELSE LET i == d.keys[k]
         IN  Qualified(d, k + 1,
                 IF d.vals[i] # None /\ Passes(d.vals[i])
                 THEN Put(acc, i, d.vals[i]) ELSE acc)

Survivors(d) == {i \in Keys(d) : d.vals[i] # None}

\* the score triples a contig may have: at most one of the three is low
Confidences ==
    {t \in Scores \X Scores \X Scores : t[1] + t[2] + t[3] >= 2}

\* the three confidence scores are computed from the filtered evidence when
\* line 173-175 first reads them
RemoveUnqualified ==
    /\ pc = "filter" /\ ~raised
    /\ idx > Len(ctg_alns.keys)
    /\ \E conf \in [Survivors(ctg_alns) -> Confidences] :
        LET scored == [ctg_alns EXCEPT !.vals =
                         [i \in Keys(ctg_alns) |->
                            IF i \in Survivors(ctg_alns)
                            THEN [ctg_alns.vals[i] EXCEPT !.confidence = conf[i]]
                            ELSE ctg_alns.vals[i]]]
        IN  /\ ctg_alns' = scored
            /\ fltrd_ctg_alns' = Qualified(scored, 1, EmptyDict)
    /\ pc' = "group"
    /\ UNCHANGED <<options, stream, idx, filter_calls, raised, orderVars, writeVars>>


----------------------------------------------------------------------------
(* Stage 3: grouping, sorting and gap sizes, lines 179-207 *)

\* the references a contig has evidence against
RefsOf(c) == {c.alns[k].ref_header : k \in 1..Len(c.alns)}

AppendTo_Overwrite(d, ref, entry) == Put(d, ref, <<entry>>)

\* defaultdict(list): mapped_ref_seqs[best_ref].append(entry)
AppendTo(d, ref, entry) ==
    IF Has(d, ref) THEN Put(d, ref, Append(d.vals[ref], entry))
    ELSE Put(d, ref, <<entry>>)

RECURSIVE GroupAll(_, _, _)
\* lines 183-186
GroupAll(d, k, acc) ==
    IF k > Len(d.keys) THEN acc
    ELSE LET i == d.keys[k]
             c == d.vals[i]
         IN  GroupAll(d, k + 1,
                 AppendTo(acc, c.best_ref_header,
                          <<c.best_ref_pos[1], c.best_ref_pos[2], i>>))

\* Python's order on tuples
TupleLess(a, b) ==
    \/ a[1] < b[1]
    \/ a[1] = b[1] /\ a[2] < b[2]
    \/ a[1] = b[1] /\ a[2] = b[2] /\ a[3] < b[3]

RECURSIVE Insert(_, _)
Insert(e, s) ==
    IF s = <<>> THEN <<e>>
    ELSE IF TupleLess(e, Head(s)) THEN <<e>> \o s
    ELSE <<Head(s)>> \o Insert(e, Tail(s))

sorted_Unsorted(s) == s

RECURSIVE sorted(_)
\* line 191
sorted(s) == IF s = <<>> THEN <<>> ELSE Insert(Head(s), sorted(Tail(s)))

\* lines 201-205
InferredPad(left_max, right_min, g) ==
    IF right_min - left_max >= 0 THEN right_min - left_max ELSE g

\* lines 194-205
InferredPads(seqs, flanks, g) ==
    [j \in 1..(Len(seqs) - 1) |->
        InferredPad(flanks[seqs[j][3]][2], flanks[seqs[j + 1][3]][1], g)]

\* line 207
FixedPads(seqs, g) == [j \in 1..(Len(seqs) - 1) |-> g]

\* the stream that leaves every contig of a placed set with one alignment
PlacedStreams ==
    {s \in UNION {[1..n -> Records("nucmer")] : n \in 0..MaxStream} :
        \A j, k \in 1..Len(s) : j # k => s[j].query_header # s[k].query_header}

AllConfident(d) ==
    [d EXCEPT !.vals = [i \in Keys(d) |-> [d.vals[i] EXCEPT !.confidence = <<1, 1, 1>>]]]

InitOrder ==
    /\ pc = "group"
    /\ aligner = "nucmer"
    /\ query_blacklist = {}
    /\ ref_blacklist = {}
    /\ min_q = 0
    /\ min_len = DefaultMinLen
    /\ group_score_thresh = 0
    /\ loc_score_thresh = 0
    /\ orient_score_thresh = 0
    /\ gap_size \in GapSizes
    /\ infer_gaps \in BOOLEAN
    /\ overwrite_files = FALSE
    /\ stream \in PlacedStreams
    /\ ctg_alns = AllConfident(AggregateAll(EmptyDict, stream))
    /\ idx = Len(stream) + 1
    /\ filter_calls = [k \in 1..Len(stream) |->
            LET c == ContigAlignment(stream[k].query_header, <<stream[k]>>)
            IN  Call("unique_anchor_filter", c, c)]
    /\ raised = FALSE
    /\ fltrd_ctg_alns = Qualified(ctg_alns, 1, EmptyDict)
    /\ mapped_ref_seqs = EmptyDict
    /\ pads_sizes = EmptyDict
    /\ out_file = Absent
    /\ prev_file = Absent
    /\ all_out_lines = <<>>
    /\ logged = {}

\* lines 182-186; best_ref_header and get_best_ref_pos() are computed from the
\* contig's evidence when the loop reads them
Group ==
    /\ pc = "group"
    /\ \E ref \in [Keys(fltrd_ctg_alns) -> Refs], pos \in [Keys(fltrd_ctg_alns) -> Intervals] :
        /\ \A i \in Keys(fltrd_ctg_alns) : ref[i] \in RefsOf(fltrd_ctg_alns.vals[i])
        /\ LET located == [fltrd_ctg_alns EXCEPT !.vals =
                             [i \in Keys(fltrd_ctg_alns) |->
                                [fltrd_ctg_alns.vals[i] EXCEPT
                                    !.best_ref_header = ref[i],
                                    !.best_ref_pos = pos[i]]]]
           IN  /\ fltrd_ctg_alns' = located
               /\ mapped_ref_seqs' = GroupAll(located, 1, EmptyDict)
    /\ pc' = "order"
    /\ UNCHANGED <<options, readVars, idx, filter_calls, raised, pads_sizes, writeVars>>

SortAll(d) == [d EXCEPT !.vals = [r \in Keys(d) |-> sorted(d.vals[r])]]

\* lines 189-207 with -r
OrderInferred ==
    /\ pc = "order" /\ infer_gaps
    /\ LET seqs == SortAll(mapped_ref_seqs)
           read == {i \in Keys(fltrd_ctg_alns) :
                      \E r \in Keys(seqs) :
                         /\ Len(seqs.vals[r]) >= 2
                         /\ \E k \in 1..Len(seqs.vals[r]) : seqs.vals[r][k][3] = i}
       IN  \E flanks \in [read -> Intervals] :
             LET flanked == [i \in Keys(fltrd_ctg_alns) |->
                               IF i \in read
                               THEN [fltrd_ctg_alns.vals[i] EXCEPT !.best_ref_flanks = flanks[i]]
                               ELSE fltrd_ctg_alns.vals[i]]
             IN  /\ mapped_ref_seqs' = seqs
                 /\ fltrd_ctg_alns' = [fltrd_ctg_alns EXCEPT !.vals = flanked]
                 /\ pads_sizes' = [keys |-> seqs.keys,
                                   vals |-> [r \in Keys(seqs) |->
                                               InferredPads(seqs.vals[r], flanks, gap_size)]]
    /\ pc' = "write"
    /\ UNCHANGED <<options, readVars, idx, filter_calls, raised, writeVars>>

\* lines 189-207 without -r
OrderFixed ==
    /\ pc = "order" /\ ~infer_gaps
    /\ LET seqs == SortAll(mapped_ref_seqs)
       IN  /\ mapped_ref_seqs' = seqs
           /\ pads_sizes' = [keys |-> seqs.keys,
                             vals |-> [r \in Keys(seqs) |-> FixedPads(seqs.vals[r], gap_size)]]
    /\ pc' = "write"
    /\ UNCHANGED <<options, readVars, filterVars, writeVars>>

NextOrder == Group \/ OrderInferred \/ OrderFixed

SpecOrder == InitOrder /\ [][NextOrder]_vars

(* C1, C2, C7: the layout the ordering step leaves behind *)

Flanks(i) == fltrd_ctg_alns.vals[i].best_ref_flanks

\* C1: with gap inference on, every gap between adjacent contigs of a reference
\* is non-negative, whatever the fixed gap size and the flanks; it is the fixed
\* gap size when right.min_start - left.max_end < 0 and that difference otherwise.
C1_InferredGaps ==
    (pc = "write" /\ infer_gaps) =>
        \A r \in Keys(mapped_ref_seqs) :
            \A j \in 1..(Len(mapped_ref_seqs.vals[r]) - 1) :
                LET left_max  == Flanks(mapped_ref_seqs.vals[r][j][3])[2]
                    right_min == Flanks(mapped_ref_seqs.vals[r][j + 1][3])[1]
                    gap       == pads_sizes.vals[r][j]
                IN  /\ gap >= 0
                    /\ (right_min - left_max < 0 => gap = gap_size)
                    /\ (right_min - left_max >= 0 => gap = right_min - left_max)

\* C2: after the ordering step every reference's list of (ref_start, ref_end,
\* query_header) entries is strictly ascending in lexicographic order and its
\* gap-size list is one shorter than it, with fixed and with inferred gaps.
C2_SortedWithGaps ==
    pc = "write" =>
        /\ Keys(pads_sizes) = Keys(mapped_ref_seqs)
        /\ \A r \in Keys(mapped_ref_seqs) :
            LET seqs == mapped_ref_seqs.vals[r]
            IN  /\ Len(seqs) >= 1
                /\ Len(pads_sizes.vals[r]) = Len(seqs) - 1
                /\ \A j \in 1..(Len(seqs) - 1) :
                    \/ seqs[j][1] < seqs[j + 1][1]
                    \/ seqs[j][1] = seqs[j + 1][1] /\ seqs[j][2] < seqs[j + 1][2]
                    \/ /\ seqs[j][1] = seqs[j + 1][1]
                       /\ seqs[j][2] = seqs[j + 1][2]
                       /\ seqs[j][3] < seqs[j + 1][3]

C2_Witness ==
    /\ pc = "write"
    /\ \E r \in Keys(mapped_ref_seqs) :
        LET seqs == mapped_ref_seqs.vals[r]
        IN  /\ Len(seqs) = 3
            /\ seqs[1][1] = seqs[2][1] /\ seqs[1][2] = seqs[2][2]
            /\ seqs[2][1] < seqs[3][1]
            /\ fltrd_ctg_alns.keys[1] = seqs[3][3]
            /\ fltrd_ctg_alns.keys[2] = seqs[2][3]

Occurrences(i) ==
    {<<r, k>> \in Keys(mapped_ref_seqs) \X (1..NumContigs) :
        k <= Len(mapped_ref_seqs.vals[r]) /\ mapped_ref_seqs.vals[r][k][3] = i}

\* C7: every placed contig appears exactly once over all references' ordering
\* lists, in the list of its own best_ref_header; no other contig appears in
\* any list; every reference key has at least one contig and, once the gaps
\* are sized, a key in the gap-size mapping.
C7_PlacedExactlyOnce ==
    pc \in {"order", "write"} =>
        /\ \A i \in Keys(fltrd_ctg_alns) :
            /\ Cardinality(Occurrences(i)) = 1
            /\ \A o \in Occurrences(i) : o[1] = fltrd_ctg_alns.vals[i].best_ref_header
        /\ \A i \in Contigs \ Keys(fltrd_ctg_alns) : Occurrences(i) = {}
        /\ \A r \in Keys(mapped_ref_seqs) :
            /\ Len(mapped_ref_seqs.vals[r]) >= 1
            /\ Len(mapped_ref_seqs.vals[r]) <= NumContigs
            /\ \A k \in 1..Len(mapped_ref_seqs.vals[r]) :
                 mapped_ref_seqs.vals[r][k][3] \in Keys(fltrd_ctg_alns)
        /\ Len(mapped_ref_seqs.keys) = Cardinality(Keys(mapped_ref_seqs))
        /\ (pc = "write" => Keys(pads_sizes) = Keys(mapped_ref_seqs))

C7_Witness ==
    /\ pc = "write"
    /\ Cardinality(Keys(fltrd_ctg_alns)) = 3
    /\ Cardinality(Keys(mapped_ref_seqs)) = 2
    /\ \E r \in Keys(mapped_ref_seqs) : Len(mapped_ref_seqs.vals[r]) = 2

----------------------------------------------------------------------------
(* Stage 2 followed through the grouping and the sorting of what it placed *)

NextFilter ==
    FilterMinimap2 \/ FilterNucmer \/ RemoveUnqualified \/ Group \/ OrderFixed

SpecFilter == InitFilter /\ [][NextFilter]_vars

(* C6, C10 *)

InSomeOrdering(i) ==
    \E r \in Keys(mapped_ref_seqs) :
        \E k \in 1..Len(mapped_ref_seqs.vals[r]) : mapped_ref_seqs.vals[r][k][3] = i

CallsOf(i) == SelectSeq(filter_calls, LAMBDA call : call.ctg = i)

Aggregated == AggregateAll(EmptyDict, stream)

\* C10: per contig the filters run in a fixed order.  With minimap2 the first
\* call is filter_mapq on the aggregated contig, and unique_anchor_filter is
\* called next, once, on its result, only when that result is not None; with
\* nucmer filter_mapq is never called and unique_anchor_filter is called once
\* on every aggregated contig.  No filter is ever called on None.
C10_FilterOrder ==
    /\ ~raised
    /\ \A n \in 1..Len(filter_calls) : filter_calls[n].arg # None
    /\ pc = "filter" =>
        \A k \in 1..Len(ctg_alns.keys) :
            LET i     == ctg_alns.keys[k]
                calls == CallsOf(i)
            IN  IF k >= idx THEN calls = <<>> /\ ctg_alns.vals[i] = Aggregated.vals[i]
                ELSE IF aligner = "minimap2"
                THEN /\ Len(calls) >= 1
                     /\ calls[1].fn = "filter_mapq"
                     /\ calls[1].arg = Aggregated.vals[i]
                     /\ IF calls[1].res = None
                        THEN Len(calls) = 1 /\ ctg_alns.vals[i] = None
                        ELSE /\ Len(calls) = 2
                             /\ calls[2].fn = "unique_anchor_filter"
                             /\ calls[2].arg = calls[1].res
                             /\ ctg_alns.vals[i] = calls[2].res
                ELSE /\ Len(calls) = 1
                     /\ calls[1].fn = "unique_anchor_filter"
                     /\ calls[1].arg = Aggregated.vals[i]
                     /\ ctg_alns.vals[i] = calls[1].res

C10_Witness ==
    /\ pc = "filter"
    /\ aligner = "minimap2"
    /\ idx > Len(ctg_alns.keys)
    /\ \E i, j \in Keys(ctg_alns) :
        /\ Len(CallsOf(i)) = 1
        /\ ctg_alns.vals[i] = None
        /\ Len(CallsOf(j)) = 2
        /\ Len(CallsOf(j)[1].arg.alns) = 2
        /\ Len(CallsOf(j)[2].arg.alns) = 1

----------------------------------------------------------------------------
(* Stage 4: write_orderings, lines 12-62 *)

\* lines 33-47: the record of a sequence segment
SeqLine(ref, pos, c) ==
    [ref |-> ref, start |-> pos, end |-> pos + c.query_len, kind |-> "s",
     name |-> c.query_header, strand |-> c.orientation, conf |-> c.confidence]

\* lines 50-58: the record of a gap segment; NA stands in the strand column and
\* an empty tuple for the three NA of the confidence columns
GapLine(ref, pos, gap, gap_id) ==
    [ref |-> ref, start |-> pos, end |-> pos + gap, kind |-> "g",
     name |-> gap_id, strand |-> "NA", conf |-> <<>>]

RefStart_Carry(pos) == pos

\* line 25: the cursor of a reference, given where the previous one ended
RefStart(pos) == 0

GapIdAtRef_Reset(gap_id) == 0

\* lines 22-24: gap_id is set before the loop over the references and is
\* carried from one reference to the next
GapIdAtRef(gap_id) == gap_id

RECURSIVE RefLines(_, _, _, _, _, _, _, _)
\* lines 32-58; i counts from 1
RefLines(ref, q_seqs, gap_seqs, ctg_dict, i, pos, gap_id, acc) ==
    IF i > Len(q_seqs) THEN [lines |-> acc, pos |-> pos, gap_id |-> gap_id]
    ELSE LET c    == ctg_dict.vals[q_seqs[i][3]]
             line == SeqLine(ref, pos, c)
         IN  IF i - 1 < Len(gap_seqs)
             THEN LET gap == GapLine(ref, line.end, gap_seqs[i], gap_id)
                  IN  RefLines(ref, q_seqs, gap_seqs, ctg_dict, i + 1,
                               gap.end, gap_id + 1, acc \o <<line, gap>>)
             ELSE RefLines(ref, q_seqs, gap_seqs, ctg_dict, i + 1,
                           line.end, gap_id, Append(acc, line))

RECURSIVE OutLines(_, _, _, _, _, _, _)
\* lines 22-58
OutLines(ordering_dict, ctg_dict, gap_dict, k, pos, gap_id, acc) ==
    IF k > Len(ordering_dict.keys) THEN acc
    ELSE LET ref_header == ordering_dict.keys[k]
             r == RefLines(ref_header, ordering_dict.vals[ref_header],
                           gap_dict.vals[ref_header], ctg_dict, 1,
                           RefStart(pos), GapIdAtRef(gap_id), acc)
         IN  OutLines(ordering_dict, ctg_dict, gap_dict, k + 1, r.pos, r.gap_id, r.lines)

Placeable == 1..MaxPlaced

Orientation(q) == IF q % 2 = 1 THEN "+" ELSE "-"

\* a placed contig as write_orderings receives it
PlacedContig(q, ref) ==
    [ContigAlignment(q, <<AlignmentRecord(q, ref, NullMapq)>>) EXCEPT
        !.confidence = <<1, 1, 1>>, !.best_ref_header = ref,
        !.best_ref_pos = <<0, 0>>, !.orientation = Orientation(q)]

RECURSIVE Ascending(_, _)
\* the members of a set of headers, smallest first
Ascending(S, from) ==
    IF S = {} THEN <<>>
    ELSE IF from \in S THEN <<from>> \o Ascending(S \ {from}, from + 1)
    ELSE Ascending(S, from + 1)

\* the layouts main() can hand over: every placed contig in the sorted list of
\* its reference, the references in any order, one gap between neighbours
Layouts ==
    {[assign |-> a, keys |-> ks] :
        a \in [Placeable -> Refs \cup {0}],
        ks \in {<<>>, <<1>>, <<2>>, <<1, 2>>, <<2, 1>>}}

WellFormed(l) ==
    {l.keys[k] : k \in 1..Len(l.keys)} = {l.assign[q] : q \in Placeable} \ {0}

OrderingOf(l) ==
    [keys |-> l.keys,
     vals |-> [r \in {l.keys[k] : k \in 1..Len(l.keys)} |->
                 LET qs == Ascending({q \in Placeable : l.assign[q] = r}, 1)
                 IN  [k \in 1..Len(qs) |-> <<0, 0, qs[k]>>]]]

CtgDictOf(l) ==
    LET placed == {q \in Placeable : l.assign[q] # 0}
    IN  [keys |-> Ascending(placed, 1),
         vals |-> [q \in placed |-> PlacedContig(q, l.assign[q])]]

\* the file an earlier run left behind: contig 1 alone on reference 1
PriorFile ==
    LET l == [assign |-> [q \in Placeable |-> IF q = 1 THEN 1 ELSE 0], keys |-> <<1>>]
    IN  OutLines(OrderingOf(l), CtgDictOf(l),
                 [keys |-> <<1>>, vals |-> [r \in {1} |-> <<>>]], 1, 0, 0, <<>>)

\* the gap sizes main() can hand over with a layout: one per pair of neighbours
GapLists(seqs) ==
    {[keys |-> seqs.keys, vals |-> v] :
        v \in {f \in [Keys(seqs) -> UNION {[1..n -> GapSizes] : n \in 0..(MaxPlaced - 1)}] :
                 \A r \in Keys(seqs) : Len(f[r]) = Len(seqs.vals[r]) - 1}}

InitWrite ==
    /\ pc = "write"
    /\ aligner = "nucmer"
    /\ query_blacklist = {}
    /\ ref_blacklist = {}
    /\ min_q = 0
    /\ min_len = DefaultMinLen
    /\ group_score_thresh = 0
    /\ loc_score_thresh = 0
    /\ orient_score_thresh = 0
    /\ gap_size = MaxGap
    /\ infer_gaps = TRUE
    /\ overwrite_files \in BOOLEAN
    /\ stream = <<>>
    /\ idx = 1
    /\ filter_calls = <<>>
    /\ raised = FALSE
    /\ \E l \in Layouts :
        /\ WellFormed(l)
        /\ mapped_ref_seqs = OrderingOf(l)
        /\ fltrd_ctg_alns = CtgDictOf(l)
        /\ ctg_alns = fltrd_ctg_alns
    /\ pads_sizes \in GapLists(mapped_ref_seqs)
    /\ out_file \in {Absent, File(PriorFile)}
    /\ prev_file = out_file
    /\ all_out_lines = <<>>
    /\ logged = {}

KeepsExisting_Inverted(f, overwrite) == f.exists /\ overwrite

\* lines 16-17
KeepsExisting(f, overwrite) == f.exists /\ ~overwrite

\* lines 16-19
Retain ==
    /\ pc = "write"
    /\ KeepsExisting(out_file, overwrite_files)
    /\ logged' = logged \cup {"retaining pre-existing file"}
    /\ pc' = "scaffold"
    /\ UNCHANGED <<options, readVars, filterVars, orderVars, out_file, prev_file, all_out_lines>>

\* lines 22-60
BuildLines ==
    /\ pc = "write"
    /\ ~KeepsExisting(out_file, overwrite_files)
    /\ all_out_lines' = OutLines(mapped_ref_seqs, fltrd_ctg_alns, pads_sizes, 1, 0, 0, <<>>)
    /\ logged' = logged \cup {"writing"}
    /\ pc' = "open"
    /\ UNCHANGED <<options, readVars, filterVars, orderVars, out_file, prev_file>>

\* line 61: open(out_file, "w") creates the file or truncates it
OpenFile ==
    /\ pc = "open"
    /\ out_file' = File(<<>>)
    /\ pc' = "writing"
    /\ UNCHANGED <<options, readVars, filterVars, orderVars, prev_file, all_out_lines, logged>>

\* line 62: the buffered writer may put a part of the text on disk before the
\* file is closed
FlushPart ==
    /\ pc = "writing"
    /\ \E n \in (Len(out_file.lines) + 1)..(Len(all_out_lines) - 1) :
        out_file' = File(SubSeq(all_out_lines, 1, n))
    /\ UNCHANGED <<pc, options, readVars, filterVars, orderVars, prev_file, all_out_lines, logged>>

\* leaving the with block of lines 61-62 flushes and closes the file
CloseFile ==
    /\ pc = "writing"
    /\ out_file' = File(all_out_lines)
    /\ pc' = "scaffold"
    /\ UNCHANGED <<options, readVars, filterVars, orderVars, prev_file, all_out_lines, logged>>

\* main() is run again on the same contigs, with other gap sizes
Rerun ==
    /\ pc = "scaffold"
    /\ pads_sizes' \in GapLists(mapped_ref_seqs)
    /\ prev_file' = out_file
    /\ all_out_lines' = <<>>
    /\ logged' = {}
    /\ pc' = "write"
    /\ UNCHANGED <<options, readVars, filterVars, mapped_ref_seqs, out_file>>

NextWrite == Retain \/ BuildLines \/ OpenFile \/ FlushPart \/ CloseFile \/ Rerun

SpecWrite == InitWrite /\ [][NextWrite]_vars

(* C3, C4, C5, C9: what write_orderings emits and what it does to the file *)

Written == "writing" \in logged

LinesOf(r) == SelectSeq(all_out_lines, LAMBDA line : line.ref = r)

\* C3: in the records emitted for one reference the first segment starts at 0,
\* every later segment starts where the one before it ended, a sequence
\* segment is as long as its contig's query_len, a gap segment as long as the
\* gap size at its position, and the segments alternate sequence, gap, ...,
\* sequence; no cursor is carried from one reference into the next.
C3_Segments ==
    Written =>
        /\ \A n \in 1..Len(all_out_lines) : all_out_lines[n].ref \in Keys(mapped_ref_seqs)
        /\ \A r \in Keys(mapped_ref_seqs) :
            LET L        == LinesOf(r)
                q_seqs   == mapped_ref_seqs.vals[r]
                gap_seqs == pads_sizes.vals[r]
            IN  /\ Len(L) = 2 * Len(q_seqs) - 1
                /\ L[1].start = 0
                /\ \A k \in 2..Len(L) : L[k].start = L[k - 1].end
                /\ \A k \in 1..Len(L) :
                    IF k % 2 = 1
                    THEN /\ L[k].kind = "s"
                         /\ L[k].name = q_seqs[(k + 1) \div 2][3]
                         /\ L[k].end - L[k].start = fltrd_ctg_alns.vals[L[k].name].query_len
                    ELSE /\ L[k].kind = "g"
                         /\ L[k].end - L[k].start = gap_seqs[k \div 2]

C3_Witness ==
    /\ pc = "scaffold"
    /\ Written
    /\ out_file = File(all_out_lines)
    /\ mapped_ref_seqs.keys = <<2, 1>>
    /\ Len(mapped_ref_seqs.vals[1]) = 2
    /\ Len(mapped_ref_seqs.vals[2]) = 2
    /\ pads_sizes.vals[1] = <<1>>
    /\ pads_sizes.vals[2] = <<1>>

GapLinesWritten == SelectSeq(all_out_lines, LAMBDA line : line.kind = "g")

\* C4: over the whole output of one call the k-th gap record carries id k-1, so
\* the gap ids are distinct and increase in emission order, across references.
C4_GapIds ==
    Written =>
        /\ \A k \in 1..Len(GapLinesWritten) : GapLinesWritten[k].name = k - 1
        /\ \A j, k \in 1..Len(GapLinesWritten) :
              j < k => GapLinesWritten[j].name < GapLinesWritten[k].name

C4_Witness ==
    /\ pc = "scaffold"
    /\ Written
    /\ Len(GapLinesWritten) = 2
    /\ GapLinesWritten[1].ref # GapLinesWritten[2].ref
    /\ GapLinesWritten[2].name = 1

NewContent ==
    File(OutLines(mapped_ref_seqs, fltrd_ctg_alns, pads_sizes, 1, 0, 0, <<>>))

\* C5: when orderings.bed exists at the call and overwrite is false, the call
\* leaves it as it was whatever the layout, logs that the file is retained and
\* returns; the file is written only when it did not exist or overwrite is
\* true.  Run after run without overwrite, the file stays what it was.
C5_RetainExisting ==
    /\ ~raised
    /\ (prev_file.exists /\ ~overwrite_files) =>
          /\ out_file = prev_file
          /\ pc \in {"write", "scaffold"}
          /\ (pc = "scaffold" => logged = {"retaining pre-existing file"})
    /\ (out_file # prev_file \/ Written) => (~prev_file.exists \/ overwrite_files)

C5_Witness ==
    /\ pc = "scaffold"
    /\ prev_file.exists /\ ~overwrite_files
    /\ prev_file # File(PriorFile)
    /\ NewContent # prev_file
    /\ Len(NewContent.lines) >= 3
    /\ logged = {"retaining pre-existing file"}

\* C9: a reader of orderings.bed sees, at every point of write_orderings, the
\* complete previous content (or no file) or the complete new content.
C9_AtomicWrite ==
    out_file \in {prev_file, NewContent}

====
